---- MODULE Spec2Model ----
(***************************************************************************)
(* Model of the soda logging facade (src/src/lib.rs): the Soda object, its *)
(* FileLogger handler, the process-wide logger of the log crate that basicConfig      *)
(* installs through fern, the console it chains to, and the files the     *)
(* FileLogger opens.                                                       *)
(*                                                                         *)
(* Text is modelled as a sequence of string fragments whose concatenation *)
(* is the text; a file is the sequence of fragments written to it.  The   *)
(* clock is abstracted: a rendered timestamp is represented by the        *)
(* pattern it was rendered with.                                          *)
(***************************************************************************)
EXTENDS Integers, Sequences, FiniteSets, TLC

VARIABLES
    verbosity,    \* argument of Soda::new
    base_config,  \* level of the Dispatch built (and dropped) by Soda::new
    level,        \* Soda.level
    format,       \* Soda.format
    enabled,      \* Soda.handlers.FileHandler.enabled
    path,         \* Soda.handlers.FileHandler.path
    LOGGER,       \* the process-wide logger of the log crate: the installed Dispatches
    max_level,    \* log::max_level()
    console,      \* what the Dispatch chain wrote to std::io::stdout(), one entry per record
    printed,      \* what the last call printed with println!, "" when nothing
    fs,           \* the file system: path -> Missing or the file's contents
    ioOps,        \* the file system calls the last call made
    calls,        \* the number of info, warning, debug, trace and error calls so far
    panicked      \* "" or the message of the panic that ended the last call

vars == <<verbosity, base_config, level, format, enabled, path, LOGGER, max_level,
          console, printed, fs, ioOps, calls, panicked>>

----------------------------------------------------------------------------
\* Bounds of the model.

MaxVerbosity == 2
MaxCalls == 2

----------------------------------------------------------------------------
\* log::LevelFilter / log::Level, in the order of the log crate.

Off == 0
Error == 1
Warn == 2
Info == 3
Debug == 4
Trace == 5

Levels == Error..Trace

LevelName(lvl) ==
    CASE lvl = Error -> "ERROR"
      [] lvl = Warn -> "WARN"
      [] lvl = Info -> "INFO"
      [] lvl = Debug -> "DEBUG"
      [] lvl = Trace -> "TRACE"

dateFormat == "[%Y-%m-%d][%H:%M:%S]"

\* The target of a record emitted by the macros of lib.rs: module_path!().
ModuleTarget == "soda"

----------------------------------------------------------------------------
\* Python strings handed to the facade.  A string holding a lone surrogate
\* cannot be read as UTF-8: PyUnicode::to_str fails on it.

LoneSurrogate == "<lone surrogate>"
Messages == {"ready", "tick"}
PyStrs == Messages \cup {LoneSurrogate}
\* The messages given to warning, debug, trace and error.
OtherStrs == {"tick", LoneSurrogate}
Patterns == {"%H:%M"}
PyPatterns == Patterns \cup {LoneSurrogate}

to_str(u) == IF u = LoneSurrogate THEN [ok |-> FALSE] ELSE [ok |-> TRUE, val |-> u]

----------------------------------------------------------------------------
\* The file system.

Missing == "<missing>"

DefaultPath == "default.log"
\* Paths in an existing, writable directory.
PlainPaths == {DefaultPath, "app.log"}
\* A path whose parent directory does not exist: open and create fail with NotFound.
NoParentPaths == {"nodir/app.log"}
\* A path that may not be read: open fails with PermissionDenied.
DeniedPaths == {"/root/app.log"}
Paths == PlainPaths \cup NoParentPaths \cup DeniedPaths

OldContents == <<"old", "\n">>

\* File::open(path): the outcome of opening for reading.
File_open(files, p) ==
    IF p \in DeniedPaths THEN "PermissionDenied"
    ELSE IF p \in NoParentPaths \/ files[p] = Missing THEN "NotFound"
    ELSE "Ok"

\* File::create(path): the outcome, and the file system after it.
File_create(files, p) ==
    IF p \in PlainPaths
    THEN [ok |-> TRUE, fs |-> [files EXCEPT ![p] = <<>>]]
    ELSE [ok |-> FALSE, fs |-> files]

\* OpenOptions::new().write(true).append(true).open(path): no create flag.
OpenAppend(files, p) == p \in PlainPaths /\ files[p] # Missing

\* write! in place of writeln!: no newline after the message.
writeln_bare(contents, message) == contents \o <<message>>

\* writeln!(file, "{}", message) on a file opened for append.
writeln(contents, message) == contents \o <<message, "\n">>

----------------------------------------------------------------------------
\* Soda::new: the level given to base_config for a verbosity.

new_level(v) ==
    CASE v = 0 -> Info
      [] v = 1 -> Debug
      [] v = 2 -> Warn
      [] OTHER -> Trace

\* fern::Dispatch::new(): a Dispatch lets every level through until .level() is called.
Dispatch_new == [level |-> Trace]

----------------------------------------------------------------------------
\* basicConfig: the closure given to .format(), for one record.

Timestamp(dtFormat) == dtFormat

\* The block chosen for the records without a target.
formatRecord_empty(dtFormat, lvl, target, message) ==
    IF lvl > Info /\ target = ""
    THEN <<"---\nDEBUG: ", Timestamp(dtFormat), ": ", message, "\n---">>
    ELSE <<"[", Timestamp(dtFormat), "][", target, "][", LevelName(lvl), "] ", message>>

formatRecord(dtFormat, lvl, target, message) ==
    IF lvl > Info /\ target = "soda"
    THEN <<"---\nDEBUG: ", Timestamp(dtFormat), ": ", message, "\n---">>
    ELSE <<"[", Timestamp(dtFormat), "][", target, "][", LevelName(lvl), "] ", message>>

\* An apply that chains the new Dispatch behind the installed ones.
apply_chain(installed, curMax, dispatch) ==
    [LOGGER |-> Append(installed, dispatch), max_level |-> dispatch.level]

\* Dispatch::apply(): log::set_boxed_logger fails once a logger is installed, and
\* apply returns that error before it touches log::set_max_level.
apply(installed, curMax, dispatch) ==
    IF installed = <<>>
    THEN [LOGGER |-> <<dispatch>>, max_level |-> dispatch.level]
    ELSE [LOGGER |-> installed, max_level |-> curMax]

\* info!/warn!/debug!/trace!/error!: the record reaches the installed logger when
\* its level passes log::max_level(); each installed Dispatch that lets the level
\* through renders it and writes it to its chained stdout.
log(lvl, target, message) ==
    IF lvl <= max_level
    THEN LET through == SelectSeq(LOGGER, LAMBDA d : lvl <= d.level)
         IN  console \o [i \in 1..Len(through) |->
                            formatRecord(through[i].dtFormat, lvl, target, message)]
    ELSE console

----------------------------------------------------------------------------
\* FileLogger

FileLogger_new == [enabled |-> FALSE, path |-> DefaultPath]

\* FileLogger::logger: the file system after the call, the calls made, the panic.
logger(p, files, message) ==
    IF OpenAppend(files, p)
    THEN [fs |-> [files EXCEPT ![p] = writeln(files[p], message)],
          io |-> {"open_append", "write"},
          panic |-> ""]
    ELSE [fs |-> files,
          io |-> {"open_append"},
          panic |-> "called Result::unwrap() on an Err value"]

\* A callback that does not look at enabled.
callback_always(en, p, files, message) == logger(p, files, message)

\* A callback that mirrors only what the global filter admits.
callback_filtered(en, p, files, message) ==
    IF en /\ Info <= max_level THEN logger(p, files, message)
    ELSE [fs |-> files, io |-> {}, panic |-> ""]

\* Soda::callback
callback(en, p, files, message) ==
    IF en THEN logger(p, files, message)
    ELSE [fs |-> files, io |-> {}, panic |-> ""]

\* An addFileHandler that sets the handler's fields before it opens the file.
attach_early(en, cur, files, p) ==
    LET f == File_open(files, p) IN
    IF f = "Ok"
    THEN [enabled |-> TRUE, path |-> p, fs |-> files,
          io |-> {"open"}, panic |-> ""]
    ELSE IF f = "NotFound"
    THEN LET fc == File_create(files, p) IN
         [enabled |-> TRUE, path |-> p, fs |-> fc.fs,
          io |-> {"open", "create"},
          panic |-> IF fc.ok THEN "" ELSE "Problem creating the file"]
    ELSE [enabled |-> TRUE, path |-> p, fs |-> files,
          io |-> {"open"}, panic |-> "an error occured"]

\* An addFileHandler that creates the file whether or not it exists.
attach_truncate(en, cur, files, p) ==
    LET fc == File_create(files, p) IN
    IF fc.ok
    THEN [enabled |-> TRUE, path |-> p, fs |-> fc.fs,
          io |-> {"create"}, panic |-> ""]
    ELSE [enabled |-> en, path |-> cur, fs |-> files,
          io |-> {"create"}, panic |-> "Problem creating the file"]

\* Soda::addFileHandler: the handler's fields and the file system after the call.
attach(en, cur, files, p) ==
    LET f == File_open(files, p) IN
    IF f = "Ok"
    THEN [enabled |-> TRUE, path |-> p, fs |-> files,
          io |-> {"open"}, panic |-> ""]
    ELSE IF f = "NotFound"
    THEN LET fc == File_create(files, p) IN
         IF fc.ok
         THEN [enabled |-> TRUE, path |-> p, fs |-> fc.fs,
               io |-> {"open", "create"}, panic |-> ""]
         ELSE [enabled |-> en, path |-> cur, fs |-> files,
               io |-> {"open", "create"},
               panic |-> "Problem creating the file"]
    ELSE [enabled |-> en, path |-> cur, fs |-> files,
          io |-> {"open"}, panic |-> "an error occured"]

----------------------------------------------------------------------------
\* The state after Soda::new(verbosity), in a process where no logger is installed.
\* Of the files, default.log may exist already.

Init ==
    /\ verbosity \in 0..MaxVerbosity
    /\ base_config = new_level(verbosity)
    /\ level = "NOTSET"
    /\ format = ""
    /\ enabled = FileLogger_new.enabled
    /\ path = FileLogger_new.path
    /\ LOGGER = <<>>
    /\ max_level = Off
    /\ console = <<>>
    /\ printed = ""
    /\ fs \in {f \in [Paths -> {Missing, OldContents}] :
                  \A p \in Paths \ {DefaultPath} : f[p] = Missing}
    /\ ioOps = {}
    /\ calls = 0
    /\ panicked = ""

\* A call is made while the process runs.
Running == panicked = ""

setFormat(f) ==
    /\ Running
    /\ format' = (IF to_str(f).ok THEN to_str(f).val ELSE format)
    /\ ioOps' = {} /\ printed' = ""
    /\ UNCHANGED <<verbosity, base_config, level, enabled, path, LOGGER, max_level,
                   console, fs, calls, panicked>>

basicConfig(dtFormat) ==
    /\ Running
    /\ LET fmt == IF to_str(dtFormat).ok THEN to_str(dtFormat).val ELSE dateFormat
           config == apply(LOGGER, max_level, Dispatch_new @@ [dtFormat |-> fmt])
       IN  /\ printed' = (IF to_str(dtFormat).ok THEN ""
                          ELSE "An error occured while reading the format")
           /\ LOGGER' = config.LOGGER
           /\ max_level' = config.max_level
    /\ ioOps' = {}
    /\ UNCHANGED <<verbosity, base_config, level, format, enabled, path,
                   console, fs, calls, panicked>>

info(message) ==
    /\ Running /\ calls < MaxCalls
    /\ calls' = calls + 1
    /\ IF ~to_str(message).ok
       THEN ioOps' = {} /\ UNCHANGED <<console, fs, panicked>>
       ELSE LET msg == to_str(message).val
                cb == callback(enabled, path, fs, msg)
            IN  /\ console' = log(Info, ModuleTarget, msg)
                /\ fs' = cb.fs
                /\ ioOps' = cb.io
                /\ panicked' = cb.panic
    /\ printed' = ""
    /\ UNCHANGED <<verbosity, base_config, level, format, enabled, path, LOGGER,
                   max_level>>

addFileHandler(p) ==
    /\ Running
    /\ LET r == attach(enabled, path, fs, p)
       IN  /\ enabled' = r.enabled
           /\ path' = r.path
           /\ fs' = r.fs
           /\ ioOps' = r.io
           /\ panicked' = r.panic
    /\ printed' = ""
    /\ UNCHANGED <<verbosity, base_config, level, format, LOGGER, max_level,
                   console, calls>>

\* warning, debug, trace and error differ in the macro they call only.
emit(lvl, message) ==
    /\ Running /\ calls < MaxCalls
    /\ calls' = calls + 1
    /\ console' = (IF to_str(message).ok
                   THEN log(lvl, ModuleTarget, to_str(message).val)
                   ELSE console)
    /\ ioOps' = {} /\ printed' = ""
    /\ UNCHANGED <<verbosity, base_config, level, format, enabled, path, LOGGER,
                   max_level, fs, panicked>>

warning(message) == emit(Warn, message)

debug(message) == emit(Debug, message)

trace(message) == emit(Trace, message)

error(message) == emit(Error, message)

setLevel(v) ==
    /\ Running
    /\ level' = (CASE v = 1 -> "DEBUG"
                   [] v = 2 -> "INFO"
                   [] v = 3 -> "WARNING"
                   [] OTHER -> "DEBUG")
    /\ printed' = (IF v \in 1..3 THEN ""
                   ELSE "Found none, setting default value to DEBUG")
    /\ ioOps' = {}
    /\ UNCHANGED <<verbosity, base_config, format, enabled, path, LOGGER, max_level,
                   console, fs, calls, panicked>>

\* Arguments of setLevel (a u8): a tier and a code outside the tiers.
Tiers == {1, 4}

Next ==
    \/ \E f \in PyPatterns : setFormat(f)
    \/ \E f \in PyPatterns : basicConfig(f)
    \/ \E m \in PyStrs : info(m)
    \/ \E p \in Paths : addFileHandler(p)
    \/ \E m \in OtherStrs : warning(m)
    \/ \E m \in OtherStrs : debug(m)
    \/ \E m \in OtherStrs : trace(m)
    \/ \E m \in OtherStrs : error(m)
    \/ \E v \in Tiers : setLevel(v)

Spec == Init /\ [][Next]_vars

----------------------------------------------------------------------------
\* The program in an environment that removes its files: the open in
\* FileLogger::logger then fails, the file being gone.

unlink(p) ==
    /\ Running
    /\ fs[p] # Missing
    /\ fs' = [fs EXCEPT ![p] = Missing]
    /\ UNCHANGED <<verbosity, base_config, level, format, enabled, path, LOGGER,
                   max_level, console, printed, ioOps, calls, panicked>>

NextEnv ==
    \/ Next
    \/ \E p \in PlainPaths : unlink(p)

SpecEnv == Init /\ [][NextEnv]_vars

----------------------------------------------------------------------------
\* The console path in a process whose other call sites log too: the Dispatch
\* that basicConfig installs is process-wide and formats every record, whatever
\* its target.  The records are those of the facade and those of other targets.

Targets == {"", "other", "soda::inner"}
RecordLevels == {Warn, Info, Debug}

record(lvl, target, message) ==
    /\ Running /\ calls < MaxCalls
    /\ calls' = calls + 1
    /\ console' = log(lvl, target, message)
    /\ UNCHANGED <<verbosity, base_config, level, format, enabled, path, LOGGER,
                   max_level, printed, fs, ioOps, panicked>>

NextFormat ==
    \/ \E f \in PyPatterns : basicConfig(f)
    \/ \E m \in PyStrs : info(m)
    \/ \E m \in OtherStrs : warning(m)
    \/ \E m \in OtherStrs : debug(m)
    \/ \E m \in OtherStrs : trace(m)
    \/ \E m \in OtherStrs : error(m)
    \/ \E lvl \in RecordLevels, t \in Targets : record(lvl, t, "tick")

SpecFormat == Init /\ [][NextFormat]_vars

----------------------------------------------------------------------------
\* C1: an info call whose open-for-append fails (the attached file was removed)
\* does not panic: no state is reached in which the unwrap of FileLogger::logger
\* has panicked.
C1_InfoNeverPanics == panicked # "called Result::unwrap() on an Err value"

\* C2: addFileHandler with a path that can be neither opened nor created fails
\* with a reported error and leaves enabled, path and the files as they were.
C2_FailedAttachKeepsState ==
    [][\A p \in NoParentPaths \cup DeniedPaths :
          addFileHandler(p) =>
              /\ panicked' \in {"Problem creating the file", "an error occured"}
              /\ enabled' = enabled
              /\ path' = path
              /\ fs' = fs]_vars

\* A never-attached facade after a failed attachment: still not enabled, on the
\* default path.
C2_Witness ==
    /\ panicked = "Problem creating the file"
    /\ ioOps = {"open", "create"}
    /\ ~enabled
    /\ path = DefaultPath

\* C3: with verbosity 0 and the global logger configured, a debug call writes
\* nothing to the console and nothing to a file.
C3_DebugDroppedAtVerbosity0 ==
    [][\A m \in OtherStrs :
          (verbosity = 0 /\ LOGGER # <<>> /\ debug(m)) =>
              (console' = console /\ fs' = fs)]_vars

\* C4: while no file is attached, no call other than addFileHandler makes a
\* file system call or changes a file, default.log included.
C4_NoFileIoWhileDisabled ==
    [][(~enabled /\ ~(\E p \in Paths : addFileHandler(p))) =>
          (ioOps' = {} /\ fs' = fs)]_vars

\* An unattached facade that has logged through info twice, the logger installed.
C4_Witness ==
    /\ ~enabled /\ panicked = ""
    /\ Len(console) = 2
    /\ \A i \in 1..2 : Len(console[i]) = 8 /\ console[i][6] = "INFO"
    /\ ioOps = {}

\* C5: a write through the enabled file sink extends the attached file by the
\* message and one newline, after its previous contents; attaching an existing
\* file leaves it as it is, attaching a missing one creates it empty; nothing
\* else changes a file.
C5_AppendOnly ==
    [][/\ \A m \in Messages :
            (info(m) /\ enabled) =>
                fs' = [fs EXCEPT ![path] = fs[path] \o <<m, "\n">>]
       /\ \A p \in PlainPaths :
            addFileHandler(p) =>
                fs' = IF fs[p] = Missing THEN [fs EXCEPT ![p] = <<>>] ELSE fs
       /\ \A q \in PlainPaths :
            fs'[q] # fs[q] =>
                \/ fs[q] = Missing /\ fs'[q] = <<>>
                \/ /\ fs[q] # Missing
                   /\ Len(fs'[q]) = Len(fs[q]) + 2
                   /\ SubSeq(fs'[q], 1, Len(fs[q])) = fs[q]
                   /\ fs'[q][Len(fs'[q])] = "\n"]_vars

\* A file that existed before it was attached, read back after two writes.
C5_Witness ==
    \E p \in PlainPaths :
        /\ enabled /\ path = p
        /\ fs[p] = OldContents \o <<"ready", "\n", "tick", "\n">>

\* C6: addFileHandler with the path that is attached already changes nothing,
\* and each info call then appends one line to that file and none to another.
C6_AttachIdempotent ==
    [][/\ \A p \in Paths :
            (enabled /\ path = p /\ addFileHandler(p)) =>
                (enabled' /\ path' = p /\ fs' = fs /\ panicked' = "")
       /\ \A m \in Messages :
            (info(m) /\ enabled) =>
                /\ Len(fs'[path]) = Len(fs[path]) + 2
                /\ \A q \in Paths \ {path} : fs'[q] = fs[q]]_vars

\* The second attachment of a path: the call found the file that the first one
\* created.
C6_Witness ==
    /\ enabled /\ panicked = ""
    /\ fs[path] = <<>>
    /\ ioOps = {"open"}

\* C7: the level chosen for a verbosity admits every severity that the level
\* chosen for the verbosity below admits: 0 -> Info, 1 -> Debug, 2 -> Debug,
\* 3 or more -> Trace.
C7_Staircase ==
    /\ \A s \in Levels : s <= base_config => s <= new_level(verbosity + 1)
    /\ base_config = (CASE verbosity = 0 -> Info
                        [] verbosity = 1 -> Debug
                        [] verbosity = 2 -> Debug
                        [] OTHER -> Trace)

\* C8: at most one Dispatch is ever installed, the one of the first basicConfig
\* call; a later call changes nothing of the logger; and a message that the
\* logger admits is written to the console once.
C8_InstalledOnce ==
    [][/\ Len(LOGGER') <= 1
       /\ LOGGER # <<>> => (LOGGER' = LOGGER /\ max_level' = max_level)
       /\ \A m \in Messages :
            (LOGGER # <<>> /\ (info(m) \/ warning(m) \/ debug(m) \/ trace(m) \/ error(m))) =>
                Len(console') = Len(console) + 1]_vars

\* A second basicConfig call, with an unreadable pattern, after a first one: the
\* first pattern is still the installed one, and a message went out once.
C8_Witness ==
    /\ printed = "An error occured while reading the format"
    /\ LOGGER = <<[level |-> Trace, dtFormat |-> "%H:%M"]>>
    /\ Len(console) = 1

\* C9 as claimed: the block is produced exactly when the severity is more
\* verbose than Info and the target is empty; a message of the facade is
\* rendered with an empty target segment.
C9_BlockIffEmptyTarget ==
    [][/\ \A lvl \in RecordLevels, t \in Targets :
            (record(lvl, t, "tick") /\ console' # console) =>
                (console'[Len(console')][1] = "---\nDEBUG: " <=> (lvl > Info /\ t = ""))
       /\ \A m \in Messages :
            (info(m) /\ console' # console) =>
                console'[Len(console')] =
                    <<"[", LOGGER[1].dtFormat, "][", "", "][", "INFO", "] ", m>>]_vars

\* C9 as amended: the block is produced exactly when the severity is more
\* verbose than Info and the target is "soda", the target of every record of
\* the facade; every other record is the single line with its own target.
C9_BlockIffOwnTarget ==
    [][/\ \A lvl \in RecordLevels, t \in Targets :
            (record(lvl, t, "tick") /\ console' # console) =>
                console'[Len(console')] =
                    <<"[", LOGGER[1].dtFormat, "][", t, "][", LevelName(lvl), "] ", "tick">>
       /\ \A m \in Messages :
            (info(m) /\ console' # console) =>
                console'[Len(console')] =
                    <<"[", LOGGER[1].dtFormat, "][", "soda", "][", "INFO", "] ", m>>
       /\ (warning("tick") /\ console' # console) =>
                console'[Len(console')] =
                    <<"[", LOGGER[1].dtFormat, "][", "soda", "][", "WARN", "] ", "tick">>
       /\ (error("tick") /\ console' # console) =>
                console'[Len(console')] =
                    <<"[", LOGGER[1].dtFormat, "][", "soda", "][", "ERROR", "] ", "tick">>
       /\ ((debug("tick") \/ trace("tick")) /\ console' # console) =>
                console'[Len(console')] =
                    <<"---\nDEBUG: ", LOGGER[1].dtFormat, ": ", "tick", "\n---">>]_vars

\* A Debug record with an empty target next to a debug message of the facade:
\* the first is a single line, the second the block.
C9_Witness ==
    /\ Len(console) = 2
    /\ console[1] = <<"[", "%H:%M", "][", "", "][", "DEBUG", "] ", "tick">>
    /\ console[2] = <<"---\nDEBUG: ", "%H:%M", ": ", "tick", "\n---">>

\* C10: an info call with a readable message appends the message to the
\* attached file whatever the verbosity, the level set and the logger
\* installed; warning, debug, trace and error leave every file as it is.
C10_FileGetsInfoOnly ==
    [][/\ \A m \in Messages :
            (info(m) /\ enabled) =>
                /\ Len(fs'[path]) >= 2
                /\ SubSeq(fs'[path], Len(fs'[path]) - 1, Len(fs'[path])) = <<m, "\n">>
                /\ ioOps' = {"open_append", "write"}
       /\ \A m \in OtherStrs :
            (warning(m) \/ debug(m) \/ trace(m) \/ error(m)) =>
                (fs' = fs /\ ioOps' = {})]_vars

\* A message in the attached file although no logger was ever installed, the
\* level set being DEBUG and the verbosity 0.
C10_Witness ==
    /\ enabled /\ LOGGER = <<>> /\ max_level = Off
    /\ verbosity = 0 /\ level = "DEBUG"
    /\ console = <<>>
    /\ ioOps = {"open_append", "write"}
    /\ fs[path] = <<"ready", "\n">>

====
